---- MODULE Spec2Model ----
(***************************************************************************)
(* Model of the Hugging Face recursive downloader (src/hf_recur.py):        *)
(* parse_hf_url, get_files_recursive, download_file_with_wget and the       *)
(* __main__ driver; of the Google Drive mirror (src/gdSvc.py and           *)
(* src/gdBatch.py): download_folder_recursive, download_file and main; and  *)
(* of the simple recursive downloader (src/hf_rdl.py): process_directory.   *)
(*                                                                         *)
(* Text is modelled as a sequence of tokens: a token is either the         *)
(* separator "/" or a non-empty word that contains no "/".  Two words are   *)
(* never adjacent, so every text has exactly one token sequence and        *)
(* equality of token sequences is equality of the Python strings.          *)
(***************************************************************************)
EXTENDS Integers, Sequences, FiniteSets, TLC

(***************************************************************************)
(* Bounds of the model.                                                    *)
(***************************************************************************)
MaxRetries == 2          \* args.retries ranges over 0..MaxRetries
MaxBackoff == 2          \* args.backoff ranges over 1..MaxBackoff
MaxPages == 3            \* pages of the flat paginated directory: 1..MaxPages
MaxPerPage == 2          \* entries per page of the flat directory: 0..MaxPerPage

(***************************************************************************)
(* Python values.                                                          *)
(***************************************************************************)
None == "<None>"
SLASH == "/"

\* Python truthiness of an optional text atom (cursor, header value).
Truthy(v) == v # None /\ v # ""

RECURSIVE Pow2(_)
\* 2 ** n
Pow2(n) == IF n <= 0 THEN 1 ELSE 2 * Pow2(n - 1)

(***************************************************************************)
(* str methods on token sequences.                                         *)
(***************************************************************************)
RECURSIVE LStrip(_)
\* s.lstrip('/')
LStrip(s) == IF s # <<>> /\ Head(s) = SLASH THEN LStrip(Tail(s)) ELSE s

RECURSIVE RStrip(_)
\* s.rstrip('/')
RStrip(s) ==
    IF s # <<>> /\ s[Len(s)] = SLASH THEN RStrip(SubSeq(s, 1, Len(s) - 1)) ELSE s

\* s.strip('/')
Strip(s) == LStrip(RStrip(s))

RECURSIVE SplitFrom(_, _)
\* the segments of s, the first of which starts with the (already read) text cur
SplitFrom(s, cur) ==
    IF s = <<>> THEN <<cur>>
    ELSE IF Head(s) = SLASH THEN <<cur>> \o SplitFrom(Tail(s), <<>>)
    ELSE SplitFrom(Tail(s), cur \o <<Head(s)>>)

\* s.split('/'): always at least one segment, empty segments kept
Split(s) == SplitFrom(s, <<>>)

RECURSIVE Join(_)
\* "/".join(parts)
Join(parts) ==
    IF parts = <<>> THEN <<>>
    ELSE IF Len(parts) = 1 THEN parts[1]
    ELSE parts[1] \o <<SLASH>> \o Join(Tail(parts))

\* parts[n:] with a 0-based n
From_Mut(parts, n) == SubSeq(parts, n, Len(parts))
From(parts, n) == SubSeq(parts, n + 1, Len(parts))

\* a text written as its segments: T(<<"a","b">>) is "a/b"
T(segs) == Join([i \in 1..Len(segs) |-> <<segs[i]>>])

(***************************************************************************)
(* parse_hf_url                                                            *)
(***************************************************************************)
HOST == "huggingface.co"

\* path_type == 'resolve'
IsFileUrl_Mut(path_type) == FALSE
IsFileUrl(path_type) == path_type = <<"resolve">>

\* parsed.netloc != 'huggingface.co' is the failure
ValidHost_Mut(netloc) == TRUE
ValidHost(netloc) == netloc = HOST

\* path_type in ['tree', 'resolve']
Recognised_Mut(path_type) == TRUE
Recognised(path_type) == path_type \in {<<"tree">>, <<"resolve">>}

\* The url is [netloc, path]: what urlparse returns for it.
\* The result is [ok |-> FALSE] for None, or the tuple returned.
parse_hf_url(url) ==
    LET path_parts == Split(Strip(url.path))
        n == Len(path_parts)
        repo_id == path_parts[1] \o <<SLASH>> \o path_parts[2]
        third == path_parts[3]
        recognised == Recognised(third)
        path_type == IF n > 2 /\ recognised THEN third ELSE <<"tree">>
        ref == IF n > 3 /\ recognised THEN path_parts[4] ELSE <<"main">>
        repo_path == IF n > 2 /\ ~recognised THEN Join(From(path_parts, 2))
                     ELSE IF n > 3 THEN Join(From(path_parts, 4))
                     ELSE <<>>
    IN  IF ~ValidHost(url.netloc) THEN [ok |-> FALSE]
        ELSE IF n < 2 THEN [ok |-> FALSE]
        ELSE [ok |-> TRUE, repo_id |-> repo_id, ref |-> ref, repo_path |-> repo_path,
              is_file_url |-> IsFileUrl(path_type)]

(***************************************************************************)
(* URLs built by the walker and the driver.                                *)
(***************************************************************************)
HF == <<"https:", SLASH, SLASH, HOST>>

\* f"https://huggingface.co/{repo_id}/resolve/{ref}/{path}"
ResolveUrl_Mut(repo_id, ref, path) ==
    HF \o <<SLASH>> \o repo_id \o <<SLASH, "resolve", SLASH, "main", SLASH>> \o path
ResolveUrl(repo_id, ref, path) ==
    HF \o <<SLASH>> \o repo_id \o <<SLASH, "resolve", SLASH>> \o ref \o <<SLASH>> \o path

\* f"https://huggingface.co/api/models/{repo_id}/tree/{ref}/{path}".rstrip('/')
api_list_url_base(repo_id, ref, path) ==
    RStrip(HF \o <<SLASH, "api", SLASH, "models", SLASH>> \o repo_id
              \o <<SLASH, "tree", SLASH>> \o ref \o <<SLASH>> \o path)

(***************************************************************************)
(* os.path                                                                 *)
(***************************************************************************)
\* os.path.join(a, b) for a relative b
PathJoin(a, b) ==
    IF a = <<>> THEN b
    ELSE IF a[Len(a)] = SLASH THEN a \o b
    ELSE a \o <<SLASH>> \o b

RECURSIVE LastSlash(_)
\* index of the last "/" of s, 0 when there is none
LastSlash(s) ==
    IF s = <<>> THEN 0
    ELSE IF s[Len(s)] = SLASH THEN Len(s)
    ELSE LastSlash(SubSeq(s, 1, Len(s) - 1))

\* os.path.dirname(p)
Dirname(p) ==
    LET head == SubSeq(p, 1, LastSlash(p))
    IN  IF RStrip(head) = <<>> THEN head ELSE RStrip(head)

(***************************************************************************)
(* The remote tree API: a mock server.  A site maps <<path, cursor>> to    *)
(* the page the listing endpoint answers with; a request for anything      *)
(* else is answered 404.                                                   *)
(***************************************************************************)
File(segs) == [path |-> T(segs), type |-> "file"]
Dir(segs) == [path |-> T(segs), type |-> "directory"]
Symlink(segs) == [path |-> T(segs), type |-> "symlink"]
\* a JSON object without 'type'
NoType(segs) == [path |-> T(segs), type |-> None]
\* a JSON array element that is no object: item.get raises
NonDict == [path |-> <<>>, type |-> "<non-dict>"]

\* a JSON array, with the X-Next-Cursor header of the response
ListPage(entries, next) ==
    [kind |-> "list", entries |-> entries, next |-> next, error |-> {}]
\* a JSON object {'error': msg}; msg is modelled by the phrases found in it
ErrorPage(phrases) ==
    [kind |-> "error", entries |-> <<>>, next |-> None, error |-> phrases]
\* any other JSON value
OtherPage == [kind |-> "other", entries |-> <<>>, next |-> None, error |-> {}]
\* a 4xx/5xx answer: raise_for_status raises
NotFound == [kind |-> "http_error", entries |-> <<>>, next |-> None, error |-> {}]

NOT_A_DIR == "is not a directory"
NO_TREE == "Cannot get tree"

ROOT == <<>>

CursorOf(j) == IF j = 1 THEN None ELSE "c" \o ToString(j)

\* a flat directory served as N pages of k files each
FlatSite(N, k) ==
    [key \in {<<ROOT, CursorOf(j)>> : j \in 1..N} |->
        LET j == CHOOSE n \in 1..N : CursorOf(n) = key[2]
        IN  ListPage([i \in 1..k |-> File(<<"f" \o ToString(j) \o "_" \o ToString(i)>>)],
                     IF j < N THEN CursorOf(j + 1) ELSE None)]

\* directory A (two pages, one file on the first) and directory B (three files)
TwoDirSite ==
    (<<ROOT, None>> :> ListPage(<<Dir(<<"A">>), Dir(<<"B">>)>>, None))
    @@ (<<T(<<"A">>), None>> :> ListPage(<<File(<<"A", "a1">>)>>, "cA"))
    @@ (<<T(<<"A">>), "cA">> :> ListPage(<<File(<<"A", "a2">>)>>, None))
    @@ (<<T(<<"B">>), None>> :>
           ListPage(<<File(<<"B", "b1">>), File(<<"B", "b2">>), File(<<"B", "b3">>)>>, None))

\* a three-level tree with files before and after each directory entry
NestedSite ==
    (<<ROOT, None>> :>
        ListPage(<<File(<<"x">>), Dir(<<"A">>), File(<<"y">>)>>, None))
    @@ (<<T(<<"A">>), None>> :>
        ListPage(<<Dir(<<"A", "B">>), File(<<"A", "a1">>)>>, None))
    @@ (<<T(<<"A", "B">>), None>> :> ListPage(<<File(<<"A", "B", "z">>)>>, None))

\* a paginated root with a directory on each page, the second one paginated too
PagedTreeSite ==
    (<<ROOT, None>> :> ListPage(<<Dir(<<"B">>), File(<<"w">>)>>, "cR"))
    @@ (<<ROOT, "cR">> :> ListPage(<<Dir(<<"A">>)>>, None))
    @@ (<<T(<<"B">>), None>> :> ListPage(<<File(<<"B", "b1">>)>>, None))
    @@ (<<T(<<"A">>), None>> :> ListPage(<<File(<<"A", "a1">>)>>, "cA"))
    @@ (<<T(<<"A">>), "cA">> :> ListPage(<<File(<<"A", "a2">>)>>, None))

\* the paths A and A/f1 are files; the root lists a file, then a second page
\* answers with an error payload
FileSite ==
    (<<ROOT, None>> :> ListPage(<<File(<<"f1">>)>>, "c2"))
    @@ (<<ROOT, "c2">> :> ErrorPage({NOT_A_DIR}))
    @@ (<<T(<<"A">>), None>> :> ErrorPage({NO_TREE}))
    @@ (<<T(<<"A", "f1">>), None>> :> ErrorPage({NOT_A_DIR}))

\* entries the walker skips or chokes on, an empty cursor header, odd payloads
OddSite ==
    (<<ROOT, None>> :>
        ListPage(<<Symlink(<<"s">>), NoType(<<"n">>), Dir(<<"A">>), Dir(<<"D">>),
                   Dir(<<"E">>), File(<<"f">>)>>, ""))
    @@ (<<T(<<"A">>), None>> :> ListPage(<<File(<<"A", "a1">>), NonDict>>, None))
    @@ (<<T(<<"D">>), None>> :> OtherPage)
    @@ (<<T(<<"E">>), None>> :> ErrorPage({}))

\* a remote that keeps answering with an empty page and a continuation cursor
LoopSite ==
    (<<ROOT, None>> :> ListPage(<<>>, "c1"))
    @@ (<<ROOT, "c1">> :> ListPage(<<>>, "c1"))

FlatSites == {FlatSite(N, k) : N \in 1..MaxPages, k \in 0..MaxPerPage}
Sites == FlatSites \cup {TwoDirSite, NestedSite, PagedTreeSite, FileSite, OddSite}

\* the page the endpoint answers with: params carries the cursor only when truthy
Page(site, path, cursor) ==
    LET key == <<path, IF Truthy(cursor) THEN cursor ELSE None>>
    IN  IF key \in DOMAIN site THEN site[key] ELSE NotFound

(***************************************************************************)
(* Inputs of a run.                                                        *)
(***************************************************************************)
Url(netloc, path) == [netloc |-> netloc, path |-> path]

\* values of --root
RootUrls ==
    { Url(HOST, <<SLASH>> \o T(<<"o", "r", "tree", "main">>)),
      Url(HOST, <<SLASH>> \o T(<<"o", "r", "tree", "dev", "A">>)),
      Url(HOST, <<SLASH>> \o T(<<"o", "r", "resolve", "main", "A", "f1">>)),
      Url(HOST, <<SLASH>> \o T(<<"o", "r", "blob", "A">>)),
      Url(HOST, <<SLASH>> \o T(<<"o">>)),
      Url(HOST, <<SLASH, "o", SLASH, SLASH>>),
      Url("example.com", <<SLASH>> \o T(<<"o", "r", "tree", "main">>)) }

\* value of --output
OUTPUT == <<"out">>

Args == [root : RootUrls, output : {OUTPUT}, file : BOOLEAN,
         retries : 0..MaxRetries, backoff : 1..MaxBackoff]

(***************************************************************************)
(* State.                                                                  *)
(***************************************************************************)
VARIABLES
    args,                  \* the parsed command line
    remote,                \* the site the listing endpoint serves
    pc,                    \* position of __main__
    exit_code,             \* -1 until the process exits
    parsed_info,           \* result of parse_hf_url
    stack,                 \* the active calls of get_files_recursive, innermost last
    files_to_download,     \* the manifest of __main__
    next_item,             \* position of the download loop in the manifest
    successful_downloads,
    failed_downloads,
    fetch,                 \* the active call of download_file_with_wget
    dirs,                  \* directories created by os.makedirs
    recording,             \* whether the history below is kept
    listLog,               \* walk history: one record per requests.get of the listing endpoint
    headLog,               \* walk history: one record per requests.head
    retLog,                \* walk history: one record per return of get_files_recursive
    shortfall,             \* history: some listing has used up its retries
    fetchLog,              \* history: the manifest positions the fetcher was called for
    fetchResults,          \* history: the values the fetcher has returned
    variant,               \* the Google Drive script that runs: "gdSvc" or "gdBatch"
    drive,                 \* the remote folders of Google Drive
    disk,                  \* the local paths that exist
    gd_pc,                 \* position of main of the Google Drive script
    gd_raised,             \* the call whose exception has left main, or "no"
    calls,                 \* the active calls of download_folder_recursive, innermost last
    tasks,                 \* the calls of download_file submitted to the executor
    listed,                \* history: the folders GetList has answered for
    getLog,                \* history: one record per GetContentFile that wrote its file
    rdl_args,              \* hf_rdl: the parsed command line
    rdl_pc,                \* hf_rdl: position of __main__
    rdl_calls,             \* hf_rdl: the active calls of process_directory, innermost last
    urlLog,                \* hf_rdl history: the URLs requested from the listing endpoint
    wgetLog,               \* hf_rdl history: one record per run of wget
    madeDirs               \* hf_rdl: the directories created by os.makedirs

vars == <<args, remote, pc, exit_code, parsed_info, stack, files_to_download,
          next_item, successful_downloads, failed_downloads, fetch, dirs,
          recording, listLog, headLog, retLog, shortfall, fetchLog, fetchResults,
          variant, drive, disk, gd_pc, gd_raised, calls, tasks, listed, getLog,
          rdl_args, rdl_pc, rdl_calls, urlLog, wgetLog, madeDirs>>

\* the state of hf_rdl
rdlVars == <<rdl_args, rdl_pc, rdl_calls, urlLog, wgetLog, madeDirs>>

\* the state of the Google Drive scripts
gdVars == <<variant, drive, disk, gd_pc, gd_raised, calls, tasks, listed, getLog>>

\* what no step of hf_recur changes: its inputs and the state of the other scripts
env == <<args, remote, recording, gdVars, rdlVars>>
mainVars == <<pc, exit_code, parsed_info, files_to_download>>
loopVars == <<next_item, successful_downloads, failed_downloads, fetch, dirs,
              fetchLog, fetchResults>>
walkLogs == <<listLog, headLog, retLog, shortfall>>

\* the state of hf_recur
recurVars == <<args, recording, mainVars, stack, loopVars, walkLogs>>

\* what no step of the Google Drive scripts changes: the state of the Hugging
\* Face scripts and their remote
hfVars == <<recurVars, remote, rdlVars>>

NotParsed == [ok |-> FALSE]

\* no call of download_file_with_wget is active; rcs (the exit codes of the runs
\* of wget), sleeps, dest_before and wget_found are the history of the call
NoFetch ==
    [status |-> "idle", file_url |-> <<>>, save_path |-> <<>>, current_retry |-> 0,
     rcs |-> <<>>, stderr |-> {}, sleeps |-> <<>>, dest |-> "absent",
     dest_before |-> "absent", wget_found |-> FALSE, result |-> FALSE]

\* h with e appended when the history is kept
Logged(h, e) == IF recording THEN Append(h, e) ELSE h

\* the Google Drive scripts are not run
GdOff ==
    /\ variant = "none"
    /\ drive = <<>>
    /\ disk = {}
    /\ gd_pc = "off"
    /\ gd_raised = "no"
    /\ calls = <<>>
    /\ tasks = <<>>
    /\ listed = {}
    /\ getLog = <<>>

\* hf_rdl is not run
RdlOff ==
    /\ rdl_args = <<>>
    /\ rdl_pc = "off"
    /\ rdl_calls = <<>>
    /\ urlLog = <<>>
    /\ wgetLog = <<>>
    /\ madeDirs = {}

InitCommon ==
    /\ GdOff
    /\ RdlOff
    /\ args \in Args
    /\ pc = "start"
    /\ exit_code = -1
    /\ parsed_info = NotParsed
    /\ stack = <<>>
    /\ files_to_download = <<>>
    /\ next_item = 1
    /\ successful_downloads = 0
    /\ failed_downloads = 0
    /\ fetch = NoFetch
    /\ dirs = {}
    /\ listLog = <<>>
    /\ headLog = <<>>
    /\ retLog = <<>>
    /\ shortfall = FALSE
    /\ fetchLog = <<>>
    /\ fetchResults = {}

Init ==
    /\ InitCommon
    /\ remote \in Sites
    /\ recording = TRUE

(***************************************************************************)
(* get_files_recursive: one frame per active call.                         *)
(***************************************************************************)
Frame(path) ==
    [path |-> path, files_to_download |-> <<>>, cursor |-> None,
     current_retry |-> 0, content |-> <<>>, idx |-> 0,
     next_cursor_header |-> None, pc |-> "request",
     retval |-> <<>>, why |-> ""]

\* the recursive call for a directory entry: cursor is a local of each call
ChildFrame_Mut(parent, path) == [Frame(path) EXCEPT !.cursor = parent.cursor]
ChildFrame(parent, path) == Frame(path)

top == stack[Len(stack)]
SetTop(f) == [stack EXCEPT ![Len(stack)] = f]
Walking == pc = "listing" /\ stack # <<>>

\* a manifest item (download_url, relative_save_path)
Item(url, path) == [download_url |-> url, relative_save_path |-> path]

\* wait_time = backoff_factor * (2 ** (current_retry - 1))
wait_time_Flat(backoff_factor, current_retry) == backoff_factor
wait_time_Mut(backoff_factor, current_retry) == backoff_factor * Pow2(current_retry)
wait_time(backoff_factor, current_retry) == backoff_factor * Pow2(current_retry - 1)

\* current_retry += 1
NextRetry_Mut(current_retry) == current_retry
NextRetry(current_retry) == current_retry + 1

\* what the call returns once the retries of a page are used up
ExhaustedResult(collected) == <<>>

\* "is not a directory" in error_msg or "Cannot get tree" in error_msg
SaysNotADirectory(error_msg) == NOT_A_DIR \in error_msg \/ NO_TREE \in error_msg

\* cursor is None and not files_to_download
FirstCallForPath_Mut(f) == TRUE
FirstCallForPath(f) == f.cursor = None /\ f.files_to_download = <<>>

\* the frame after `break` or after the end of the while loop
Finished(f, why) == [f EXCEPT !.pc = "return", !.retval = f.files_to_download, !.why = why]

\* requests.get succeeds and the payload is dispatched
GfrResponse ==
    /\ Walking
    /\ top.pc = "request"
    /\ LET page == Page(remote, top.path, top.cursor)
       IN  /\ page.kind # "http_error"
           /\ listLog' = Logged(listLog,
                  [path |-> top.path, cursor |-> top.cursor,
                   url |-> api_list_url_base(parsed_info.repo_id, parsed_info.ref, top.path),
                   attempt |-> top.current_retry, ok |-> TRUE, wait |-> 0])
           /\ stack' = SetTop(
                  IF page.kind = "list"
                  THEN [top EXCEPT !.content = page.entries, !.idx = 1,
                                   !.next_cursor_header = page.next, !.pc = "items"]
                  ELSE IF page.kind = "error" /\ SaysNotADirectory(page.error)
                          /\ FirstCallForPath(top)
                  THEN [top EXCEPT !.pc = "head"]
                  ELSE Finished(top, "break"))
    /\ UNCHANGED <<env, mainVars, loopVars, headLog, retLog, shortfall>>

\* requests.get, raise_for_status or .json() raises: retry or give up
GfrRequestError ==
    /\ Walking
    /\ top.pc = "request"
    /\ \E error_msg \in {"Timeout", "RequestException", "JSONDecodeError"} :
          Page(remote, top.path, top.cursor).kind = "http_error"
              => error_msg = "RequestException"
    /\ LET n == NextRetry(top.current_retry)
           retry == n <= args.retries
       IN  /\ listLog' = Logged(listLog,
                  [path |-> top.path, cursor |-> top.cursor,
                   url |-> api_list_url_base(parsed_info.repo_id, parsed_info.ref, top.path),
                   attempt |-> top.current_retry, ok |-> FALSE,
                   wait |-> IF retry THEN wait_time(args.backoff, n) ELSE 0])
           /\ stack' = SetTop(
                  IF retry
                  THEN [top EXCEPT !.current_retry = n]
                  ELSE [top EXCEPT !.current_retry = n, !.pc = "return",
                                   !.retval = ExhaustedResult(top.files_to_download),
                                   !.why = "exhausted"])
    /\ shortfall' = (shortfall \/ NextRetry(top.current_retry) > args.retries)
    /\ UNCHANGED <<env, mainVars, loopVars, headLog, retLog>>

\* head_response.status_code == 200
HeadConfirms_Mut(status) == status # "RequestException"
HeadConfirms(status) == status = "200"

\* requests.head of the resolve URL of the path, then break
GfrHead ==
    /\ Walking
    /\ top.pc = "head"
    /\ LET file_dl_url == ResolveUrl(parsed_info.repo_id, parsed_info.ref, top.path)
       IN  \E status \in {"200", "404", "RequestException"} :
              /\ headLog' = Logged(headLog, [url |-> file_dl_url, status |-> status])
              /\ stack' = SetTop(Finished(
                     [top EXCEPT !.files_to_download =
                         IF HeadConfirms(status)
                         THEN Append(@, Item(file_dl_url, top.path))
                         ELSE @], "break"))
    /\ UNCHANGED <<env, mainVars, loopVars, listLog, retLog, shortfall>>

\* one iteration of `for item in content`
GfrItem ==
    /\ Walking
    /\ top.pc = "items"
    /\ top.idx <= Len(top.content)
    /\ LET item == top.content[top.idx]
           depth == Len(stack)
       IN  IF item.type = "<non-dict>"
           THEN \* item.get raises: the exception leaves this call
                /\ retLog' = Logged(retLog,
                       [path |-> top.path, collected |-> top.files_to_download,
                        returned |-> <<>>, why |-> "raised"])
                /\ IF depth = 1
                   THEN /\ stack' = <<>>
                        /\ pc' = "done"
                        /\ exit_code' = 1
                   ELSE /\ stack' = [SubSeq(stack, 1, depth - 1)
                                        EXCEPT ![depth - 1].idx = @ + 1]
                        /\ UNCHANGED <<pc, exit_code>>
           ELSE /\ stack' =
                     IF item.path = <<>> \/ ~Truthy(item.type)
                     THEN SetTop([top EXCEPT !.idx = @ + 1])
                     ELSE IF item.type = "file"
                     THEN SetTop([top EXCEPT
                              !.files_to_download = Append(@,
                                  Item(ResolveUrl(parsed_info.repo_id, parsed_info.ref,
                                                  item.path), item.path)),
                              !.idx = @ + 1])
                     ELSE IF item.type = "directory"
                     THEN Append(stack, ChildFrame(top, item.path))
                     ELSE SetTop([top EXCEPT !.idx = @ + 1])
                /\ UNCHANGED <<pc, exit_code, retLog>>
    /\ UNCHANGED <<env, parsed_info, files_to_download, loopVars, listLog, headLog,
                   shortfall>>

\* cursor = next_cursor_header
NextCursor_Mut(f) == f.cursor
NextCursor(f) == f.next_cursor_header

\* `if next_cursor_header:`
HasNextPage_Mut(f) == FALSE
HasNextPage(f) == Truthy(f.next_cursor_header)

\* `current_retry = 0` at the head of every pass of `while True`
RetryAtNewPage_Mut(current_retry) == current_retry
RetryAtNewPage(current_retry) == 0

\* after the items of a page: follow the X-Next-Cursor header or stop
GfrCursor ==
    /\ Walking
    /\ top.pc = "items"
    /\ top.idx > Len(top.content)
    /\ stack' = SetTop(
           IF HasNextPage(top)
           THEN IF top.content = <<>> /\ ~Truthy(top.next_cursor_header)
                THEN Finished(top, "end")
                ELSE [top EXCEPT !.cursor = NextCursor(top),
                                 !.current_retry = RetryAtNewPage(top.current_retry),
                                 !.content = <<>>, !.idx = 0, !.pc = "request"]
           ELSE Finished(top, "end"))
    /\ UNCHANGED <<env, mainVars, loopVars, walkLogs>>

\* `if sub_files: files_to_download.extend(sub_files)`
Extend_Mut(files, sub_files) == IF sub_files # <<>> THEN sub_files \o files ELSE files
Extend(files, sub_files) == IF sub_files # <<>> THEN files \o sub_files ELSE files

\* the call returns, to the caller's loop or to __main__
GfrReturn ==
    /\ Walking
    /\ top.pc = "return"
    /\ retLog' = Logged(retLog,
           [path |-> top.path, collected |-> top.files_to_download,
            returned |-> top.retval, why |-> top.why])
    /\ LET depth == Len(stack)
       IN  IF depth = 1
           THEN /\ stack' = <<>>
                /\ files_to_download' = top.retval
                /\ pc' = "collected"
           ELSE /\ stack' = [SubSeq(stack, 1, depth - 1) EXCEPT
                                ![depth - 1].files_to_download = Extend(@, top.retval),
                                ![depth - 1].idx = @ + 1]
                /\ UNCHANGED <<files_to_download, pc>>
    /\ UNCHANGED <<env, exit_code, parsed_info, loopVars, listLog, headLog, shortfall>>

(***************************************************************************)
(* __main__ up to the manifest.                                            *)
(***************************************************************************)
\* the branch of lines 408-432 taken for a parsed URL and the --file flag
ListingCase_Mut(is_file_url, force_single_file) ==
    IF is_file_url THEN "resolve" ELSE IF force_single_file THEN "forced" ELSE "tree"
ListingCase(is_file_url, force_single_file) ==
    IF is_file_url /\ ~force_single_file THEN "resolve"
    ELSE IF force_single_file THEN "forced"
    ELSE "tree"

\* lines 397-432: parse the URL, then take one of the three cases
MainParse ==
    /\ pc = "start"
    /\ LET info == parse_hf_url(args.root)
       IN  /\ parsed_info' = info
           /\ IF ~info.ok
              THEN /\ pc' = "done"
                   /\ exit_code' = 1
                   /\ UNCHANGED <<stack, files_to_download>>
              ELSE /\ UNCHANGED exit_code
                   /\ IF ListingCase(info.is_file_url, args.file) = "resolve"
                      THEN \* Case 1: listed like a directory
                           /\ stack' = <<Frame(info.repo_path)>>
                           /\ pc' = "listing"
                           /\ UNCHANGED files_to_download
                      ELSE IF ListingCase(info.is_file_url, args.file) = "forced"
                      THEN \* Case 2: --file
                           /\ files_to_download' =
                                  <<Item(ResolveUrl(info.repo_id, info.ref, info.repo_path),
                                         info.repo_path)>>
                           /\ pc' = "collected"
                           /\ UNCHANGED stack
                      ELSE \* Case 3: directory
                           /\ stack' = <<Frame(info.repo_path)>>
                           /\ pc' = "listing"
                           /\ UNCHANGED files_to_download
    /\ UNCHANGED <<env, loopVars, walkLogs>>

\* lines 441-449: nothing to download, or start the download loop.  The walk is
\* over: its history is dropped, shortfall remembers what the exit status may need.
MainCollected ==
    /\ pc = "collected"
    /\ IF files_to_download = <<>>
       THEN /\ pc' = "done"
            /\ exit_code' = 0
            /\ UNCHANGED dirs
       ELSE /\ pc' = "download"
            /\ dirs' = dirs \cup {args.output}
            /\ UNCHANGED exit_code
    /\ successful_downloads' = 0
    /\ failed_downloads' = 0
    /\ listLog' = <<>>
    /\ headLog' = <<>>
    /\ retLog' = <<>>
    /\ UNCHANGED <<env, parsed_info, stack, files_to_download, next_item, fetch,
                   fetchLog, fetchResults, shortfall>>

(***************************************************************************)
(* download_file_with_wget                                                 *)
(***************************************************************************)
FILE_EXISTS == "file exists"
FULLY_RETRIEVED == "already fully retrieved"
CONN_REFUSED == "connection refused"
TIMED_OUT == "timed out"

\* what one run of wget can end with: exit code and the phrases in its stderr
WgetOutcomes ==
    { [rc |-> 0, stderr |-> {}] }
    \cup { [rc |-> 1, stderr |-> e] :
             e \in { {}, {FILE_EXISTS, FULLY_RETRIEVED}, {FULLY_RETRIEVED},
                     {CONN_REFUSED}, {TIMED_OUT} } }

\* "file exists" in stderr_output and "already fully retrieved" in stderr_output
AlreadyComplete_Mut(stderr) == FALSE
AlreadyComplete(stderr) == FILE_EXISTS \in stderr /\ FULLY_RETRIEVED \in stderr

\* the state of the destination file before the call: the file system is
\* shared with earlier runs
DestStates == {"absent", "partial", "complete"}

\* lines 451-458 and 312-340: the loop takes the next item and calls the fetcher,
\* which creates the directory and checks that wget can be run
FetchCall ==
    /\ pc = "download"
    /\ fetch.status = "idle"
    /\ next_item <= Len(files_to_download)
    /\ LET item == files_to_download[next_item]
           safe_relative_path == LStrip(item.relative_save_path)
           full_save_path == PathJoin(args.output, safe_relative_path)
           download_directory == Dirname(full_save_path)
       IN  /\ dirs' = IF download_directory # <<>> THEN dirs \cup {download_directory}
                      ELSE dirs
           /\ \E wget_found \in BOOLEAN, before \in DestStates :
                 fetch' = [NoFetch EXCEPT
                              !.status = IF wget_found THEN "running" ELSE "returned",
                              !.file_url = item.download_url,
                              !.save_path = full_save_path,
                              !.wget_found = recording /\ wget_found,
                              !.dest = before,
                              !.dest_before = IF recording THEN before ELSE "absent"]
    /\ fetchLog' = Logged(fetchLog, next_item)
    /\ UNCHANGED <<env, mainVars, stack, next_item, successful_downloads,
                   failed_downloads, fetchResults, walkLogs>>

\* `if current_retry <= retries:` after current_retry += 1: another run follows
RetryAllowed_Mut(current_retry, retries) == current_retry < retries
RetryAllowed(current_retry, retries) == current_retry <= retries

\* one iteration of `while current_retry <= retries`: one run of wget -c -O
FetchAttempt ==
    /\ pc = "download"
    /\ fetch.status = "running"
    /\ fetch.current_retry <= args.retries
    /\ \E out \in WgetOutcomes :
          LET ran == [fetch EXCEPT !.rcs = Logged(@, out.rc),
                                   !.dest = IF out.rc = 0 THEN "complete"
                                            ELSE IF @ = "absent" THEN "partial" ELSE @]
              n == fetch.current_retry + 1
          IN  fetch' =
                  IF out.rc = 0
                  THEN [ran EXCEPT !.status = "returned", !.result = TRUE]
                  ELSE IF AlreadyComplete(out.stderr)
                  THEN [ran EXCEPT !.status = "returned", !.result = TRUE,
                                   !.stderr = out.stderr]
                  ELSE IF RetryAllowed(n, args.retries)
                  THEN [ran EXCEPT !.current_retry = n,
                                   !.sleeps = Logged(@, wait_time(args.backoff, n))]
                  ELSE [ran EXCEPT !.current_retry = n, !.status = "returned",
                                   !.result = FALSE, !.stderr = out.stderr]
    /\ UNCHANGED <<env, mainVars, stack, next_item, successful_downloads,
                   failed_downloads, dirs, fetchLog, fetchResults, walkLogs>>

\* `for dl_url, relative_path in files_to_download`: the position after item i
AfterItem_Mut(i, result, n) == IF result THEN i + 1 ELSE n + 1
AfterItem(i, result, n) == i + 1

\* lines 458-462: the result of the call is tallied
FetchReturn ==
    /\ pc = "download"
    /\ fetch.status = "returned"
    /\ IF fetch.result
       THEN /\ successful_downloads' = successful_downloads + 1
            /\ UNCHANGED failed_downloads
       ELSE /\ failed_downloads' = failed_downloads + 1
            /\ UNCHANGED successful_downloads
    /\ fetchResults' = IF recording THEN fetchResults \cup {fetch.result} ELSE fetchResults
    /\ next_item' = AfterItem(next_item, fetch.result, Len(files_to_download))
    /\ fetch' = NoFetch
    /\ UNCHANGED <<env, mainVars, stack, dirs, fetchLog, walkLogs>>

\* if failed_downloads > 0: exit(1), else exit(0)
ExitStatus_Strict(failed) == 1
ExitStatus_Mut(failed) == IF failed > 1 THEN 1 ELSE 0
ExitStatus(failed) == IF failed > 0 THEN 1 ELSE 0

\* lines 464-474: the summary and the exit status
MainSummary ==
    /\ pc = "download"
    /\ fetch.status = "idle"
    /\ next_item > Len(files_to_download)
    /\ pc' = "done"
    /\ exit_code' = ExitStatus(failed_downloads)
    /\ UNCHANGED <<env, parsed_info, stack, files_to_download, loopVars, walkLogs>>

(***************************************************************************)
(* The Google Drive mirror: gdSvc.py (sequential) and gdBatch.py (the same  *)
(* walk with the downloads handed to a ThreadPoolExecutor).                 *)
(***************************************************************************)
FOLDER == "application/vnd.google-apps.folder"

\* entries of a GetList answer
GdFile(title, id) == [title |-> title, mimeType |-> "application/octet-stream", id |-> id]
GdFolder(title, id) == [title |-> title, mimeType |-> FOLDER, id |-> id]

\* folder_id and output_path of main
MAIN_FOLDER == "1Af7"
output_path == <<SLASH, "mnt", SLASH, "2d">>

\* ThreadPoolExecutor(max_workers=8)
max_workers == 8

\* a file next to two folders, one of them with a folder of its own
TreeDrive ==
    (MAIN_FOLDER :> <<GdFile("a", "fa"), GdFolder("X", "dX"), GdFolder("Y", "dY")>>)
    @@ ("dX" :> <<GdFile("b", "fb"), GdFolder("Z", "dZ")>>)
    @@ ("dZ" :> <<GdFile("d", "fd")>>)
    @@ ("dY" :> <<GdFile("c", "fc")>>)

\* Drive titles are not unique: two files of one folder carry the same title
DupDrive ==
    (MAIN_FOLDER :> <<GdFile("a", "f1"), GdFile("a", "f2"), GdFolder("X", "dX")>>)
    @@ ("dX" :> <<GdFile("a", "f3")>>)

Drives == {TreeDrive, DupDrive}

\* drive.ListFile({'q': "'<folder_id>' in parents and trashed=false"}).GetList()
GetList(d, folder_id) == IF folder_id \in DOMAIN d THEN d[folder_id] ELSE <<>>

RECURSIVE FilesUnder(_, _, _)
\* the files of the folder and of the folders below it, each with the path
\* os.path.join gives it under save_path
FilesUnder(d, folder_id, save_path) ==
    LET file_list == GetList(d, folder_id)
    IN  UNION { IF file_list[i].mimeType = FOLDER
                THEN FilesUnder(d, file_list[i].id, PathJoin(save_path, <<file_list[i].title>>))
                ELSE {[id |-> file_list[i].id,
                       file_path |-> PathJoin(save_path, <<file_list[i].title>>)]}
              : i \in DOMAIN file_list }

RECURSIVE Ancestors(_)
\* the path and the directories above it
Ancestors(p) == IF Dirname(p) = p \/ Dirname(p) = <<>> THEN {p}
                ELSE {p} \cup Ancestors(Dirname(p))

\* os.makedirs(save_path): the directory and the missing ones above it
Makedirs(paths, save_path) == paths \cup Ancestors(save_path)

\* os.path.exists(file_path)
Exists_Mut(paths, file_path) == FALSE
Exists(paths, file_path) == file_path \in paths

\* a call of download_folder_recursive
GdFrame(folder_id, save_path) ==
    [folder_id |-> folder_id, save_path |-> save_path, file_list |-> <<>>,
     idx |-> 0, futures |-> {}, pc |-> "enter"]

gdTop == calls[Len(calls)]
SetGdTop(f) == [calls EXCEPT ![Len(calls)] = f]
GdWalking == gd_pc = "walking" /\ calls # <<>>

\* the tasks that have ended, and those a worker thread is running
Ended(t) == t.status \in {"skipped", "done", "raised"}
Running == {i \in DOMAIN tasks : tasks[i].status = "downloading"}

\* what is left once an exception leaves download_folder_recursive: gdSvc ends;
\* in gdBatch the `with` block shuts the executor down first
AfterWalk == IF variant = "gdBatch" THEN "shutdown" ELSE "done"

\* main: authenticate, create the executor (gdBatch), call the walk for the root
GdMain ==
    /\ gd_pc = "main"
    /\ gd_pc' = "walking"
    /\ calls' = <<GdFrame(MAIN_FOLDER, output_path)>>
    /\ UNCHANGED <<hfVars, variant, drive, disk, gd_raised, tasks, listed, getLog>>

\* the head of download_folder_recursive: makedirs, then GetList, which may raise
GdListFolder ==
    /\ GdWalking
    /\ gdTop.pc = "enter"
    /\ disk' = IF Exists(disk, gdTop.save_path) THEN disk
               ELSE Makedirs(disk, gdTop.save_path)
    /\ \E answered \in BOOLEAN :
          IF answered
          THEN /\ calls' = SetGdTop([gdTop EXCEPT
                               !.file_list = GetList(drive, gdTop.folder_id),
                               !.idx = 1, !.pc = "loop"])
               /\ listed' = listed \cup {gdTop.folder_id}
               /\ UNCHANGED <<gd_pc, gd_raised>>
          ELSE /\ calls' = <<>>
               /\ gd_pc' = AfterWalk
               /\ gd_raised' = "GetList"
               /\ UNCHANGED listed
    /\ UNCHANGED <<hfVars, variant, drive, tasks, getLog>>

\* the entry the loop `for file in file_list` is at, and its file_path
GdEntry == gdTop.file_list[gdTop.idx]
GdEntryPath == PathJoin(gdTop.save_path, <<GdEntry.title>>)
InLoop == GdWalking /\ gdTop.pc = "loop" /\ gdTop.idx <= Len(gdTop.file_list)

\* a folder: the recursive call
GdEnterFolder ==
    /\ InLoop
    /\ GdEntry.mimeType = FOLDER
    /\ calls' = Append(calls, GdFrame(GdEntry.id, GdEntryPath))
    /\ UNCHANGED <<hfVars, variant, drive, disk, gd_pc, gd_raised, tasks, listed, getLog>>

\* gdSvc lines 23-27: skip the file or download it in place
GdSvcFile ==
    /\ InLoop
    /\ variant = "gdSvc"
    /\ GdEntry.mimeType # FOLDER
    /\ IF Exists(disk, GdEntryPath)
       THEN /\ calls' = SetGdTop([gdTop EXCEPT !.idx = @ + 1])
            /\ UNCHANGED <<disk, gd_pc, gd_raised, getLog>>
       ELSE \E outcome \in {"written", "raised", "raised halfway"} :
               /\ disk' = IF outcome = "raised" THEN disk ELSE disk \cup {GdEntryPath}
               /\ IF outcome = "written"
                  THEN /\ calls' = SetGdTop([gdTop EXCEPT !.idx = @ + 1])
                       /\ getLog' = Append(getLog, [file_path |-> GdEntryPath,
                                                    existed |-> FALSE])
                       /\ UNCHANGED <<gd_pc, gd_raised>>
                  ELSE /\ calls' = <<>>
                       /\ gd_pc' = AfterWalk
                       /\ gd_raised' = "GetContentFile"
                       /\ UNCHANGED getLog
    /\ UNCHANGED <<hfVars, variant, drive, tasks, listed>>

\* gdBatch line 32: futures.append(executor.submit(download_file, file, file_path))
GdSubmit ==
    /\ InLoop
    /\ variant = "gdBatch"
    /\ GdEntry.mimeType # FOLDER
    /\ tasks' = Append(tasks, [file |-> GdEntry.id, file_path |-> GdEntryPath,
                               folder_id |-> gdTop.folder_id, status |-> "queued",
                               existed |-> FALSE])
    /\ calls' = SetGdTop([gdTop EXCEPT !.futures = @ \cup {Len(tasks) + 1},
                                       !.idx = @ + 1])
    /\ UNCHANGED <<hfVars, variant, drive, disk, gd_pc, gd_raised, listed, getLog>>

\* a worker thread takes the task: download_file up to the call of GetContentFile
TaskStart ==
    /\ gd_pc \in {"walking", "shutdown"}
    /\ Cardinality(Running) < max_workers
    /\ \E i \in DOMAIN tasks :
          /\ tasks[i].status = "queued"
          /\ tasks' = [tasks EXCEPT
                 ![i].status = IF Exists(disk, tasks[i].file_path) THEN "skipped"
                               ELSE "downloading",
                 ![i].existed = tasks[i].file_path \in disk]
    /\ UNCHANGED <<hfVars, variant, drive, disk, gd_pc, gd_raised, calls, listed, getLog>>

\* file.GetContentFile(file_path) in a worker thread: it writes the file or raises
TaskFetch ==
    /\ gd_pc \in {"walking", "shutdown"}
    /\ \E i \in Running, outcome \in {"written", "raised", "raised halfway"} :
          /\ disk' = IF outcome = "raised" THEN disk ELSE disk \cup {tasks[i].file_path}
          /\ tasks' = [tasks EXCEPT
                 ![i].status = IF outcome = "written" THEN "done" ELSE "raised"]
          /\ getLog' = IF outcome = "written"
                       THEN Append(getLog, [file_path |-> tasks[i].file_path,
                                            existed |-> tasks[i].existed])
                       ELSE getLog
    /\ UNCHANGED <<hfVars, variant, drive, gd_pc, gd_raised, calls, listed>>

\* the futures of the call as_completed still has to hand out
Pending_Mut(f) == {}
Pending(f) == {i \in f.futures : ~Ended(tasks[i])}
\* the futures of the call whose result() raises
Raising(f) == {i \in f.futures : tasks[i].status = "raised"}

\* gdBatch lines 35-36: future.result() re-raises the exception of a task; nothing
\* catches it, so it leaves every active call and main
GdFutureRaises ==
    /\ GdWalking
    /\ gdTop.pc = "loop"
    /\ gdTop.idx > Len(gdTop.file_list)
    /\ Raising(gdTop) # {}
    /\ calls' = <<>>
    /\ gd_pc' = AfterWalk
    /\ gd_raised' = "GetContentFile"
    /\ UNCHANGED <<hfVars, variant, drive, disk, tasks, listed, getLog>>

\* the call returns: at the end of the loop (gdSvc), or once every future of
\* this call has given its result (gdBatch)
GdReturn ==
    /\ GdWalking
    /\ gdTop.pc = "loop"
    /\ gdTop.idx > Len(gdTop.file_list)
    /\ Pending(gdTop) = {}
    /\ Raising(gdTop) = {}
    /\ IF Len(calls) = 1
       THEN /\ calls' = <<>>
            /\ gd_pc' = AfterWalk
       ELSE /\ calls' = [SubSeq(calls, 1, Len(calls) - 1)
                            EXCEPT ![Len(calls) - 1].idx = @ + 1]
            /\ UNCHANGED gd_pc
    /\ UNCHANGED <<hfVars, variant, drive, disk, gd_raised, tasks, listed, getLog>>

\* the end of `with ThreadPoolExecutor(...)`: shutdown(wait=True) returns once
\* every submitted task has ended
GdShutdown ==
    /\ gd_pc = "shutdown"
    /\ \A i \in DOMAIN tasks : Ended(tasks[i])
    /\ gd_pc' = "done"
    /\ UNCHANGED <<hfVars, variant, drive, disk, gd_raised, calls, tasks, listed, getLog>>

(***************************************************************************)
(* The simple recursive downloader (src/hf_rdl.py).                         *)
(***************************************************************************)
\* base and dl_base of get_items_from_url
base == <<"https:", SLASH, SLASH, HOST, SLASH, "api", SLASH, "models">>
dl_base == <<"https:", SLASH, SLASH, HOST>>

\* parts[:n]
Upto(parts, n) == SubSeq(parts, 1, IF n < Len(parts) THEN n ELSE Len(parts))

\* to_dl(root): the root with its third segment replaced by 'resolve', cut
\* after the fourth
to_dl(root) ==
    LET parts == Split(root)
    IN  Join(Upto([parts EXCEPT ![3] = <<"resolve">>], 4))

\* f"{base}/{root}"
ListingUrl(root) == base \o <<SLASH>> \o root

\* what the endpoint answers for a URL <base>/<owner>/<repo>/tree/<ref>/<path>:
\* the first page of the path; hf_rdl never sends a cursor that the endpoint knows
RdlAnswer(site, url) ==
    LET parts == Split(SubSeq(url, Len(base) + 2, Len(url)))
    IN  IF SubSeq(url, 1, Len(base)) = base /\ Len(parts) >= 4 /\ parts[3] = <<"tree">>
        THEN Page(site, Join(From(parts, 4)), None)
        ELSE NotFound

\* the items get_items_from_url returns: the JSON list, or nothing when the
\* answer is empty or carries 'error'
ItemsOf(page) == IF page.kind = "list" THEN page.entries ELSE <<>>

\* f"{root}/{item['path']}"
new_root(root, item_path) == root \o <<SLASH>> \o item_path

\* the name wget -P gives the file: the last segment of the URL
Basename(url) == Split(url)[Len(Split(url))]

\* a call of process_directory
RdlFrame(root, output_dir) ==
    [root |-> root, output_dir |-> output_dir, items |-> <<>>, dl |-> <<>>,
     idx |-> 0, pc |-> "get_items"]

rdlTop == rdl_calls[Len(rdl_calls)]
SetRdlTop(f) == [rdl_calls EXCEPT ![Len(rdl_calls)] = f]
RdlRunning == rdl_pc = "running" /\ rdl_calls # <<>>

\* __main__: process_directory(args.root, args.output)
RdlMain ==
    /\ rdl_pc = "start"
    /\ rdl_pc' = "running"
    /\ rdl_calls' = <<RdlFrame(rdl_args.root, rdl_args.output)>>
    /\ UNCHANGED <<recurVars, remote, gdVars, rdl_args, urlLog, wgetLog, madeDirs>>

\* get_items_from_url(root)
RdlGetItems ==
    /\ RdlRunning
    /\ rdlTop.pc = "get_items"
    /\ urlLog' = Append(urlLog, ListingUrl(rdlTop.root))
    /\ rdl_calls' = SetRdlTop([rdlTop EXCEPT
           !.items = ItemsOf(RdlAnswer(remote, ListingUrl(rdlTop.root))),
           !.dl = to_dl(rdlTop.root), !.idx = 1, !.pc = "loop"])
    /\ UNCHANGED <<recurVars, remote, gdVars, rdl_args, rdl_pc, wgetLog, madeDirs>>

\* one iteration of `for item in items`
RdlItem ==
    /\ RdlRunning
    /\ rdlTop.pc = "loop"
    /\ rdlTop.idx <= Len(rdlTop.items)
    /\ LET item == rdlTop.items[rdlTop.idx]
       IN  IF item.type = "file"
           THEN LET file_url == dl_base \o <<SLASH>> \o rdlTop.dl \o <<SLASH>> \o item.path
                IN  /\ wgetLog' = Append(wgetLog,
                           [file_url |-> file_url,
                            download_directory |-> rdlTop.output_dir,
                            saved_as |-> PathJoin(rdlTop.output_dir, Basename(file_url))])
                    /\ rdl_calls' = SetRdlTop([rdlTop EXCEPT !.idx = @ + 1])
                    /\ UNCHANGED madeDirs
           ELSE IF item.type = "directory"
           THEN LET new_output_dir == PathJoin(rdlTop.output_dir, item.path)
                IN  /\ madeDirs' = Makedirs(madeDirs, new_output_dir)
                    /\ rdl_calls' = Append(rdl_calls,
                           RdlFrame(new_root(rdlTop.root, item.path), new_output_dir))
                    /\ UNCHANGED wgetLog
           ELSE /\ rdl_calls' = SetRdlTop([rdlTop EXCEPT !.idx = @ + 1])
                /\ UNCHANGED <<wgetLog, madeDirs>>
    /\ UNCHANGED <<recurVars, remote, gdVars, rdl_args, rdl_pc, urlLog>>

\* the end of the loop: the call returns
RdlReturn ==
    /\ RdlRunning
    /\ rdlTop.pc = "loop"
    /\ rdlTop.idx > Len(rdlTop.items)
    /\ IF Len(rdl_calls) = 1
       THEN /\ rdl_calls' = <<>>
            /\ rdl_pc' = "done"
       ELSE /\ rdl_calls' = [SubSeq(rdl_calls, 1, Len(rdl_calls) - 1)
                                EXCEPT ![Len(rdl_calls) - 1].idx = @ + 1]
            /\ UNCHANGED rdl_pc
    /\ UNCHANGED <<recurVars, remote, gdVars, rdl_args, urlLog, wgetLog, madeDirs>>

(***************************************************************************)
(* Specifications.                                                         *)
(***************************************************************************)
Next ==
    \/ MainParse
    \/ GfrResponse
    \/ GfrRequestError
    \/ GfrHead
    \/ GfrItem
    \/ GfrCursor
    \/ GfrReturn
    \/ MainCollected
    \/ FetchCall
    \/ FetchAttempt
    \/ FetchReturn
    \/ MainSummary

Spec == Init /\ [][Next]_vars

\* The runs without history, against sites that include one whose cursors never
\* end.  The process is sequential and always takes its next step.
LiveSites == FlatSites \cup {TwoDirSite, FileSite, OddSite, LoopSite}

LiveInit ==
    /\ InitCommon
    /\ args.backoff = 1
    /\ remote \in LiveSites
    /\ recording = FALSE

LiveSpec == LiveInit /\ [][Next]_vars /\ WF_vars(Next)

\* the state of hf_recur before its first step, but for its inputs and pc
HfFresh ==
    /\ exit_code = -1
    /\ parsed_info = NotParsed
    /\ stack = <<>>
    /\ files_to_download = <<>>
    /\ next_item = 1
    /\ successful_downloads = 0
    /\ failed_downloads = 0
    /\ fetch = NoFetch
    /\ dirs = {}
    /\ listLog = <<>>
    /\ headLog = <<>>
    /\ retLog = <<>>
    /\ shortfall = FALSE
    /\ fetchLog = <<>>
    /\ fetchResults = {}

HfOff ==
    /\ RdlOff
    /\ args = CHOOSE a \in Args : TRUE
    /\ remote = FlatSite(1, 0)
    /\ recording = TRUE
    /\ pc = "off"
    /\ HfFresh

\* a run of gdSvc or gdBatch; earlier runs may have left any of the files
GdInit ==
    /\ HfOff
    /\ variant \in {"gdSvc", "gdBatch"}
    /\ drive \in Drives
    /\ \E left \in SUBSET {f.file_path : f \in FilesUnder(drive, MAIN_FOLDER, output_path)} :
          disk = UNION {Ancestors(p) : p \in left}
    /\ gd_pc = "main"
    /\ gd_raised = "no"
    /\ calls = <<>>
    /\ tasks = <<>>
    /\ listed = {}
    /\ getLog = <<>>

GdNext ==
    \/ GdMain
    \/ GdListFolder
    \/ GdEnterFolder
    \/ GdSvcFile
    \/ GdSubmit
    \/ TaskStart
    \/ TaskFetch
    \/ GdFutureRaises
    \/ GdReturn
    \/ GdShutdown

GdSpec == GdInit /\ [][GdNext]_vars

\* The runs of __main__ up to the result of parse_hf_url, for the URLs whose
\* path is "/" followed by up to MaxSegments segments, empty ones included.
MaxSegments == 6

Segs == {<<>>, <<"o">>, <<"tree">>, <<"resolve">>}
SegLists == UNION {[1..k -> Segs] : k \in 0..MaxSegments}
ParseUrls ==
    {Url(netloc, <<SLASH>> \o Join(segs)) : netloc \in {HOST, "example.com"},
                                           segs \in SegLists}

ParseInit ==
    /\ GdOff
    /\ RdlOff
    /\ HfFresh
    /\ args \in [root : ParseUrls, output : {OUTPUT}, file : {FALSE},
                  retries : {0}, backoff : {1}]
    /\ remote = FlatSite(1, 0)
    /\ recording = TRUE
    /\ pc = "start"

ParseNext == MainParse

ParseSpec == ParseInit /\ [][ParseNext]_vars

\* A run of hf_rdl from the root of a repository, against the trees of Sites
\* whose entries are all files and directories.
RdlRoot == T(<<"o", "r", "tree", "main">>)
RdlSites == FlatSites \cup {TwoDirSite, NestedSite, PagedTreeSite}

RdlInit ==
    /\ GdOff
    /\ HfFresh
    /\ args = CHOOSE a \in Args : TRUE
    /\ recording = TRUE
    /\ pc = "off"
    /\ remote \in RdlSites
    /\ rdl_args \in [root : {RdlRoot}, output : {<<".", SLASH>>, OUTPUT}]
    /\ rdl_pc = "start"
    /\ rdl_calls = <<>>
    /\ urlLog = <<>>
    /\ wgetLog = <<>>
    /\ madeDirs = {}

RdlNext ==
    \/ RdlMain
    \/ RdlGetItems
    \/ RdlItem
    \/ RdlReturn

RdlSpec == RdlInit /\ [][RdlNext]_vars

(***************************************************************************)
(* Properties.                                                             *)
(***************************************************************************)
\* the manifest of one item for the root path itself
SingleFileItem ==
    <<Item(ResolveUrl(parsed_info.repo_id, parsed_info.ref, parsed_info.repo_path),
           parsed_info.repo_path)>>

\* no listing request of the walk has failed
AllRequestsOk == \A i \in DOMAIN listLog : listLog[i].ok

\* the walk ended with an exception that reached __main__
RootRaised == pc = "done" /\ retLog # <<>> /\ retLog[Len(retLog)].why = "raised"

\* the walk is over and its history is still there
WalkOver == pc = "collected" /\ parsed_info.ok

\* C1: a call of get_files_recursive that gives up on a page after its retries
\* returns the entries it has collected so far; in particular, with directory A
\* (one file, then a second page that uses up the retries) and directory B
\* (three files), the manifest has 4 items.
C1_PartialListingKept ==
    /\ \A i \in DOMAIN retLog :
          retLog[i].why = "exhausted" => retLog[i].returned = retLog[i].collected
    /\ ( /\ WalkOver
         /\ remote = TwoDirSite
         /\ parsed_info.repo_path = ROOT
         /\ Len(retLog) = 3
         /\ retLog[1].path = T(<<"A">>) /\ retLog[1].why = "exhausted"
         /\ Len(retLog[1].collected) = 1
         /\ retLog[2].path = T(<<"B">>) /\ retLog[2].why = "end"
         /\ Len(retLog[2].returned) = 3
         /\ retLog[3].why = "end" )
       => Len(files_to_download) = 4

\* C2 as stated: with a /resolve/ URL or with --file, the manifest is the single
\* item of the root path and the listing endpoint is never contacted.
C2_SingleFileShortCircuit ==
    (parsed_info.ok /\ (parsed_info.is_file_url \/ args.file))
    => /\ stack = <<>>
       /\ listLog = <<>>
       /\ files_to_download = SingleFileItem

\* C2 as amended: with --file, the manifest is the single item of the root path
\* and neither the listing endpoint nor the HEAD check is contacted.
C2_ForcedFileShortCircuit ==
    (parsed_info.ok /\ args.file)
    => /\ stack = <<>>
       /\ listLog = <<>>
       /\ headLog = <<>>
       /\ files_to_download = SingleFileItem

C2_Witness ==
    /\ pc = "download"
    /\ args.file
    /\ parsed_info.is_file_url
    /\ files_to_download = SingleFileItem
    /\ fetch.status = "running"

\* the first listing request for the root path was answered with an error
\* payload that says the path is no directory
RootSignalledFile ==
    /\ WalkOver
    /\ Len(retLog) = 1
    /\ listLog # <<>>
    /\ listLog[Len(listLog)].ok
    /\ listLog[Len(listLog)].cursor = None
    /\ listLog[Len(listLog)].path = parsed_info.repo_path
    /\ LET page == Page(remote, parsed_info.repo_path, None)
       IN  page.kind = "error" /\ (NOT_A_DIR \in page.error \/ NO_TREE \in page.error)

\* C3 as stated: when the first listing of the root path says "not a directory",
\* the manifest is exactly the single item of the root path.
C3_FileRootGivesOneItem == RootSignalledFile => files_to_download = SingleFileItem

\* C3 as amended: when the first listing of the root path says "not a directory",
\* one HEAD request goes to the resolve URL of the path; the manifest is the
\* single item of the root path when it answers 200 and is empty otherwise.
C3_FileRootGivesOneItemIfConfirmed ==
    RootSignalledFile
    => /\ Len(headLog) = 1
       /\ headLog[1].url = ResolveUrl(parsed_info.repo_id, parsed_info.ref,
                                      parsed_info.repo_path)
       /\ files_to_download = IF headLog[1].status = "200" THEN SingleFileItem ELSE <<>>

C3_Witness == RootSignalledFile /\ files_to_download = SingleFileItem

\* a call of the fetcher has returned for a destination that was complete before
\* the call, with wget installed
ReturnedForComplete ==
    fetch.status = "returned" /\ fetch.dest_before = "complete" /\ fetch.wget_found

C5_ExitReflectsEveryFailure ==
    (pc = "done" /\ (shortfall \/ FALSE \in fetchResults)) => exit_code # 0

\* C5 as amended: after a listing has used up its retries the exit status is
\* still 1 only if a transfer failed (or the walk raised), and 0 otherwise.
C5_ShortfallLeavesExitStatus ==
    (pc = "done" /\ shortfall)
    => exit_code = IF FALSE \in fetchResults \/ RootRaised THEN 1 ELSE 0

C5_Witness ==
    /\ pc = "done"
    /\ shortfall
    /\ exit_code = 0
    /\ successful_downloads >= 1

\* C6: the exit status is 1 when the URL cannot be parsed or some fetch has
\* failed, and 0 when the walk has ended and every fetch has succeeded.
C6_ExitCode ==
    pc = "done"
    => /\ ~parsed_info.ok => exit_code = 1
       /\ FALSE \in fetchResults => exit_code = 1
       /\ (parsed_info.ok /\ ~RootRaised /\ FALSE \notin fetchResults) => exit_code = 0

C6_Witness ==
    /\ pc = "done"
    /\ exit_code = 1
    /\ fetchResults = {TRUE, FALSE}

ManifestPaths == {files_to_download[i].relative_save_path : i \in DOMAIN files_to_download}

\* the files of the flat directory of N pages of k files
FlatPaths(N, k) == {<<"f" \o ToString(j) \o "_" \o ToString(i)>> : j \in 1..N, i \in 1..k}

\* the root of a FlatSite(N, k) has been listed without a failed request
FlatListed(N, k) ==
    /\ WalkOver
    /\ remote = FlatSite(N, k)
    /\ parsed_info.repo_path = ROOT
    /\ ~args.file
    /\ AllRequestsOk

\* C8: a flat directory of N pages of k files, listed without a failed request,
\* takes N listing requests and gives N*k manifest items, one for each remote file.
C8_PaginationExhaustive ==
    \A N \in 1..MaxPages, k \in 0..MaxPerPage :
        FlatListed(N, k)
        => /\ Len(listLog) = N
           /\ Len(files_to_download) = N * k
           /\ ManifestPaths = FlatPaths(N, k)
           /\ \A i \in DOMAIN files_to_download :
                 files_to_download[i].download_url =
                     HF \o <<SLASH, "o", SLASH, "r", SLASH, "resolve", SLASH, "main", SLASH>>
                        \o files_to_download[i].relative_save_path

C8_Witness ==
    /\ FlatListed(MaxPages, MaxPerPage)
    /\ Len(listLog) = MaxPages
    /\ Len(files_to_download) = MaxPages * MaxPerPage

RECURSIVE ChainEnds(_, _, _, _)
\* from this cursor on, the pages of the path stop carrying a cursor within fuel pages
ChainEnds(site, path, cursor, fuel) ==
    LET page == Page(site, path, cursor)
    IN  IF page.kind = "list" /\ Truthy(page.next)
        THEN fuel > 0 /\ ChainEnds(site, path, page.next, fuel - 1)
        ELSE TRUE

\* every directory of the site has a last page
CursorsEnd(site) ==
    \A key \in DOMAIN site : ChainEnds(site, key[1], None, Cardinality(DOMAIN site))

ListingOver == pc \notin {"start", "listing"}

\* C9 as stated: whatever the remote answers, the listing comes to an end.
C9_ListingTerminates == <>ListingOver

\* C9 as amended: the listing comes to an end whenever every directory of the
\* remote has a last page, one without a continuation cursor.
C9_ListingTerminatesIfCursorsEnd == CursorsEnd(remote) => <>ListingOver

C9_Witness ==
    /\ pc = "collected"
    /\ remote = FlatSite(MaxPages, 1)
    /\ parsed_info.ok
    /\ Len(files_to_download) = MaxPages

\* C10: with retries >= 2, a transfer whose first two runs fail is run a third
\* time; if that run succeeds the fetcher has made exactly 3 runs, has slept
\* backoff*1 and backoff*2, and returns success.
C10_RetryBackoffSchedule ==
    ( /\ fetch.status = "returned"
      /\ args.retries >= 2
      /\ Len(fetch.rcs) >= 2
      /\ fetch.rcs[1] # 0
      /\ fetch.rcs[2] # 0
      /\ ~(Len(fetch.rcs) = 2 /\ {FILE_EXISTS, FULLY_RETRIEVED} \subseteq fetch.stderr) )
    => /\ Len(fetch.rcs) >= 3
       /\ fetch.rcs[3] = 0
          => /\ Len(fetch.rcs) = 3
             /\ fetch.result
             /\ fetch.sleeps = <<args.backoff * 1, args.backoff * 2>>

C10_Witness ==
    /\ fetch.status = "returned"
    /\ fetch.rcs = <<1, 1, 0>>
    /\ fetch.result
    /\ fetch.sleeps = <<args.backoff, 2 * args.backoff>>
    /\ args.backoff = MaxBackoff

\* a call of the fetcher, with wget installed, has returned and every run of
\* wget it made has failed: a non-zero exit code, and the last one without the
\* report the fetcher takes for success
EveryRunFailed ==
    /\ fetch.status = "returned"
    /\ fetch.wget_found
    /\ \A i \in DOMAIN fetch.rcs : fetch.rcs[i] # 0
    /\ ~AlreadyComplete(fetch.stderr)

\* C11: a call of the fetcher never runs wget more than retries + 1 times; when
\* every run fails (connection refused, timeout or anything else) it makes
\* exactly retries + 1 runs, sleeps between them only, and returns failure.
C11_FetchRetryExhaustion ==
    /\ Len(fetch.rcs) <= args.retries + 1
    /\ EveryRunFailed
       => /\ Len(fetch.rcs) = args.retries + 1
          /\ Len(fetch.sleeps) = args.retries
          /\ ~fetch.result

C11_Witness ==
    /\ EveryRunFailed
    /\ args.retries = MaxRetries
    /\ Len(fetch.rcs) = MaxRetries + 1
    /\ fetch.stderr = {CONN_REFUSED}
    /\ ~fetch.result

\* C12: a call of the fetcher whose last run of wget exits with a non-zero code
\* while its stderr says "already fully retrieved" returns success.
C12_FullyRetrievedIsSuccess ==
    ( /\ fetch.status = "returned"
      /\ fetch.rcs # <<>>
      /\ fetch.rcs[Len(fetch.rcs)] # 0
      /\ FULLY_RETRIEVED \in fetch.stderr )
    => fetch.result

\* the number of times GetContentFile has written the path
Writes(file_path) == Cardinality({i \in DOMAIN getLog : getLog[i].file_path = file_path})

\* C13: in gdBatch no two download tasks are in GetContentFile at the same time
\* for the same destination path, whatever the folders hold.
C13_WritersNeverShareDestination ==
    variant = "gdBatch"
    => \A i, j \in Running : tasks[i].file_path = tasks[j].file_path => i = j

\* the files of the drive for which no download task was ever submitted
NeverSubmitted ==
    {f \in FilesUnder(drive, MAIN_FOLDER, output_path) :
        \A i \in DOMAIN tasks : tasks[i].file # f.id}

\* C14 for gdBatch: when every listing is answered, the run ends with every
\* folder of the drive listed and a download task submitted for every file,
\* also when some download task has raised.
C14_FailureStaysInSubtree ==
    (variant = "gdBatch" /\ gd_pc = "done" /\ gd_raised # "GetList")
    => /\ listed = DOMAIN drive
       /\ NeverSubmitted = {}

\* C15: GetContentFile is never called for a path that existed when the file
\* was examined, and no destination path is written more than once in a run,
\* in gdSvc and under every interleaving of the tasks of gdBatch.
C15_SkipFilesAlreadyPresent ==
    /\ \A i \in DOMAIN getLog : ~getLog[i].existed
    /\ \A i \in DOMAIN getLog : Writes(getLog[i].file_path) <= 1

\* the result of parse_hf_url is there
Parsed == pc # "start"
\* the segments of the path of --root: what stands between its slashes, the
\* slashes at its two ends set aside
Segments == Split(Strip(args.root.path))
NonEmptySegments == SelectSeq(Segments, LAMBDA seg : seg # <<>>)
OnHub == args.root.netloc = HOST

\* C16: for every URL that parse_hf_url accepts, repo_id is <owner>/<name>
\* with owner and name the first two non-empty segments of the path.
C16_RepositoryIdShape ==
    (Parsed /\ parsed_info.ok)
    => /\ Len(NonEmptySegments) >= 2
       /\ parsed_info.repo_id = NonEmptySegments[1] \o <<SLASH>> \o NonEmptySegments[2]

\* C17: when the host of --root is not huggingface.co or its path has fewer
\* than two segments, parse_hf_url fails and the driver exits with status 1 with
\* no listing request, no HEAD request, no call of the fetcher and no directory
\* created.
C17_InvalidUrlIsFatal ==
    (Parsed /\ (~OnHub \/ Len(NonEmptySegments) < 2))
    => /\ ~parsed_info.ok
       /\ pc = "done"
       /\ exit_code = 1
       /\ stack = <<>>
       /\ listLog = <<>> /\ headLog = <<>>
       /\ fetchLog = <<>> /\ fetch = NoFetch
       /\ dirs = {}

C17_Witness ==
    /\ pc = "done"
    /\ exit_code = 1
    /\ ~OnHub
    /\ Len(NonEmptySegments) = 4

C19_ResolveUrlParsing ==
    (Parsed /\ OnHub /\ Len(Segments) >= 3 /\ Segments[3] = <<"resolve">>)
    => /\ parsed_info.ok
       /\ parsed_info.is_file_url
       /\ parsed_info.ref = IF Len(Segments) >= 4 THEN Segments[4] ELSE <<"main">>
       /\ parsed_info.repo_path = Join(SubSeq(Segments, 5, Len(Segments)))

C19_Witness ==
    /\ Parsed
    /\ args.root = Url(HOST, <<SLASH>> \o T(<<"o", "o", "resolve", "tree", "o", "o">>))
    /\ parsed_info.is_file_url
    /\ parsed_info.ref = <<"tree">>
    /\ parsed_info.repo_path = T(<<"o", "o">>)

ListedWithoutFailures ==
    /\ WalkOver
    /\ ~args.file
    /\ AllRequestsOk
    /\ headLog = <<>>
    /\ \A i \in DOMAIN retLog : retLog[i].why # "raised"

RECURSIVE PreorderFrom(_, _, _, _)
RECURSIVE PreorderOf(_, _, _)
\* the paths of the files of a directory in depth-first pre-order, from the
\* page the cursor stands for onward; a page that is no list ends the directory
PreorderFrom(site, path, cursor, fuel) ==
    LET page == Page(site, path, cursor)
    IN  IF page.kind # "list" THEN <<>>
        ELSE PreorderOf(site, page.entries, fuel)
             \o (IF Truthy(page.next) /\ fuel > 0
                 THEN PreorderFrom(site, path, page.next, fuel - 1)
                 ELSE <<>>)

\* the same for the entries of one page, in the order of the page
PreorderOf(site, entries, fuel) ==
    IF entries = <<>> THEN <<>>
    ELSE LET e == Head(entries)
             here == IF e.path = <<>> THEN <<>>
                     ELSE IF e.type = "file" THEN <<e.path>>
                     ELSE IF e.type = "directory" /\ fuel > 0
                     THEN PreorderFrom(site, e.path, None, fuel - 1)
                     ELSE <<>>
         IN  here \o PreorderOf(site, Tail(entries), fuel)

\* the relative paths of the manifest, in manifest order
ManifestOrder == [i \in DOMAIN files_to_download |-> files_to_download[i].relative_save_path]

\* C21: for a remote tree listed without failures, the manifest is the
\* depth-first pre-order traversal: the entries in the order of the pages, the
\* result of a directory entry in the place of that entry.
C21_ManifestOrder ==
    ListedWithoutFailures
    => ManifestOrder = PreorderFrom(remote, parsed_info.repo_path, None,
                                    Cardinality(DOMAIN remote))

C21_Witness ==
    /\ ListedWithoutFailures
    /\ remote = NestedSite
    /\ ManifestOrder = <<T(<<"x">>), T(<<"A", "B", "z">>), T(<<"A", "a1">>), T(<<"y">>)>>

\* the manifests there are: the one of __main__, and the list under
\* construction and the return value of every active call of the walker
Manifests ==
    {files_to_download}
    \cup {stack[d].files_to_download : d \in DOMAIN stack}
    \cup {stack[d].retval : d \in DOMAIN stack}

\* 'https://huggingface.co/' + repo_id + '/resolve/' + ref + '/' + path
RoundTripUrl(path) ==
    <<"https:", SLASH, SLASH, "huggingface.co", SLASH>> \o parsed_info.repo_id
        \o <<SLASH, "resolve", SLASH>> \o parsed_info.ref \o <<SLASH>> \o path

AnsweredBefore(i) ==
    {j \in 1..(i - 1) : listLog[j].path = listLog[i].path /\ listLog[j].ok}

\* the X-Next-Cursor header of the page that answered request j
HeaderOf(j) == Page(remote, listLog[j].path, listLog[j].cursor).next

\* C23: a request for a directory carries no cursor until a page of that
\* directory has been received; after that it carries the continuation token
\* of the last page received for that same directory, whatever was listed in
\* between, and never the token of a page of another directory.
C23_CursorLifecycle ==
    \A i \in DOMAIN listLog :
        IF AnsweredBefore(i) = {}
        THEN listLog[i].cursor = None
        ELSE LET j == CHOOSE k \in AnsweredBefore(i) : \A l \in AnsweredBefore(i) : l <= k
             IN  /\ Truthy(HeaderOf(j))
                 /\ listLog[i].cursor = HeaderOf(j)

C23_Witness ==
    /\ WalkOver
    /\ remote = PagedTreeSite
    /\ parsed_info.repo_path = ROOT
    /\ AllRequestsOk
    /\ [i \in DOMAIN listLog |-> <<listLog[i].path, listLog[i].cursor>>] =
           << <<ROOT, None>>, <<T(<<"B">>), None>>, <<ROOT, "cR">>,
              <<T(<<"A">>), None>>, <<T(<<"A">>), "cA">> >>

\* request k was for a later page of the path and was answered with an error
\* payload that says the path is no directory
LateNotADirectory(k, path) ==
    /\ listLog[k].path = path
    /\ listLog[k].ok
    /\ listLog[k].cursor # None
    /\ LET page == Page(remote, path, listLog[k].cursor)
       IN  page.kind = "error" /\ (NOT_A_DIR \in page.error \/ NO_TREE \in page.error)

\* C24: when a later page of a path is answered with a "not a directory" error
\* payload, that request is the last one for the path, no HEAD request is made
\* for it, and the call returns the entries it has collected, without an item
\* for the path itself.
C24_NoRetroactiveReclassification ==
    \A k \in DOMAIN listLog :
        LateNotADirectory(k, listLog[k].path)
        => LET path == listLog[k].path
           IN  /\ \A l \in DOMAIN listLog : l > k => listLog[l].path # path
               /\ \A h \in DOMAIN headLog :
                      headLog[h].url # ResolveUrl(parsed_info.repo_id, parsed_info.ref, path)
               /\ \A r \in DOMAIN retLog :
                      retLog[r].path = path
                      => /\ retLog[r].why = "break"
                         /\ retLog[r].returned = retLog[r].collected
                         /\ retLog[r].returned # <<>>
                         /\ \A i \in DOMAIN retLog[r].returned :
                                retLog[r].returned[i].relative_save_path # path

C24_Witness ==
    /\ WalkOver
    /\ remote = FileSite
    /\ \E k \in DOMAIN listLog : LateNotADirectory(k, ROOT)
    /\ headLog = <<>>
    /\ ManifestOrder = <<T(<<"f1">>)>>

RECURSIVE Doubled(_, _)
\* b doubled the given number of times
Doubled(b, times) == IF times <= 0 THEN b ELSE 2 * Doubled(b, times - 1)

\* the failed listing requests that were followed by a sleep and another attempt
RetriedRequests == {i \in DOMAIN listLog : ~listLog[i].ok /\ listLog[i].attempt < args.retries}

\* C25 as stated: in both retry loops the wait before attempt n (1-indexed,
\* n >= 2) is backoff * 2^(n-1).  Request i of the log is attempt
\* listLog[i].attempt + 1 of its page; fetch.sleeps[k] precedes run k + 1.
C25_BackoffFormula ==
    /\ \A i \in RetriedRequests :
           listLog[i].wait = Doubled(args.backoff, (listLog[i].attempt + 2) - 1)
    /\ \A k \in DOMAIN fetch.sleeps :
           fetch.sleeps[k] = Doubled(args.backoff, (k + 1) - 1)

\* C25 as amended: in both retry loops the wait before attempt n (1-indexed,
\* n >= 2) is backoff * 2^(n-2): the base delay before the second attempt,
\* doubled for each attempt after that.
C25_BackoffStartsAtBase ==
    /\ \A i \in RetriedRequests :
           listLog[i].wait = Doubled(args.backoff, (listLog[i].attempt + 2) - 2)
    /\ \A k \in DOMAIN fetch.sleeps :
           fetch.sleeps[k] = Doubled(args.backoff, (k + 1) - 2)

C25_Witness ==
    /\ Walking
    /\ args.backoff = MaxBackoff
    /\ Len(listLog) >= 2
    /\ ~listLog[1].ok /\ listLog[1].wait = MaxBackoff
    /\ ~listLog[2].ok /\ listLog[2].wait = 2 * MaxBackoff

\* request i repeats request i - 1: the same page, which had failed
IsRetry(i) ==
    /\ i > 1
    /\ listLog[i - 1].path = listLog[i].path
    /\ listLog[i - 1].cursor = listLog[i].cursor
    /\ ~listLog[i - 1].ok

\* C26: the retry counter of a listing request is 0 at the first attempt for
\* every page and every directory, grows by one with each failed attempt for
\* that page, and never exceeds retries: at most retries + 1 attempts a page,
\* whatever failed before.
C26_RetryScopedToRequest ==
    \A i \in DOMAIN listLog :
        /\ listLog[i].attempt <= args.retries
        /\ listLog[i].attempt = IF IsRetry(i) THEN listLog[i - 1].attempt + 1 ELSE 0

C26_Witness ==
    /\ WalkOver
    /\ remote = FlatSite(2, 1)
    /\ args.retries = MaxRetries
    /\ Len(listLog) = 2 * (MaxRetries + 1)
    /\ \A i \in DOMAIN listLog :
           /\ listLog[i].ok = (i \in {MaxRetries + 1, 2 * (MaxRetries + 1)})
           /\ listLog[i].attempt = (i - 1) % (MaxRetries + 1)
    /\ Len(files_to_download) = 2

\* the entries on the pages of the site, and the paths of its files and directories
RemoteEntries(site) ==
    UNION {{site[key].entries[i] : i \in DOMAIN site[key].entries} : key \in DOMAIN site}
RemoteFiles(site) == {e.path : e \in {x \in RemoteEntries(site) : x.type = "file"}}
RemoteDirs(site) == {e.path : e \in {x \in RemoteEntries(site) : x.type = "directory"}}

\* hf_rdl lists every directory under its true remote path: each URL requested
\* is <base>/<root> or <base>/<root>/<path of a remote directory>
ListedUnderTruePath ==
    \A i \in DOMAIN urlLog :
        \/ urlLog[i] = base \o <<SLASH>> \o RdlRoot
        \/ \E d \in RemoteDirs(remote) : urlLog[i] = base \o <<SLASH>> \o RdlRoot \o <<SLASH>> \o d

\* hf_rdl has run wget for the file of path p with its resolve URL, into the
\* directory that puts it at <output>/<p>
Mirrored(p) ==
    \E i \in DOMAIN wgetLog :
        /\ wgetLog[i].file_url =
               dl_base \o <<SLASH>> \o T(<<"o", "r", "resolve", "main">>) \o <<SLASH>> \o p
        /\ wgetLog[i].saved_as = PathJoin(rdl_args.output, p)

\* C27: hf_rdl requests every listing under the true remote path of its
\* directory, and when it ends every file on the first page of every directory
\* of the tree has been fetched from its resolve URL to the mirrored place
\* under the output directory.
C27_MirroredLayout ==
    /\ ListedUnderTruePath
    /\ rdl_pc = "done"
       => \A key \in DOMAIN remote :
             key[2] = None
             => \A i \in DOMAIN remote[key].entries :
                   remote[key].entries[i].type = "file"
                   => Mirrored(remote[key].entries[i].path)

\* the folders whose call of download_folder_recursive is active
ActiveFolders == {calls[d].folder_id : d \in DOMAIN calls}

\* C28: in gdBatch, as long as no exception has left the walk, every download
\* task that has not finished was submitted by a call that has not returned yet:
\* a call returns only after its own tasks, and those of the calls it made,
\* have finished, and after the return of the top-level call no task is
\* pending or running.
C28_CompletionBarrier ==
    (variant = "gdBatch" /\ gd_raised = "no")
    => /\ \A i \in DOMAIN tasks : ~Ended(tasks[i]) => tasks[i].folder_id \in ActiveFolders
       /\ gd_pc \in {"shutdown", "done"} => \A i \in DOMAIN tasks : Ended(tasks[i])

C28_Witness ==
    /\ variant = "gdBatch"
    /\ drive = TreeDrive
    /\ gd_pc = "shutdown"
    /\ gd_raised = "no"
    /\ Len(tasks) = 4
    /\ \A i \in DOMAIN tasks : tasks[i].status = "done"

====
